---- MODULE Spec2Model ----
(***************************************************************************)
(* Character Pose Editor (src/App.tsx): three draggable circular pads      *)
(* (gaze, head, body) whose offsets are composed into a text prompt that   *)
(* is sent, with the uploaded image, to an image generation service.       *)
(*                                                                         *)
(* Numbers.  Offsets are JavaScript numbers.  They are modelled in fixed   *)
(* point: a value v is the integer v * Scale, and every arithmetic         *)
(* operation that is inexact (division, square root, multiplication of     *)
(* two fractions) rounds its result to the nearest representable value,    *)
(* as IEEE-754 arithmetic does at its own (finer) precision.               *)
(*                                                                         *)
(* Scheduling.  Each event handler runs to completion on the single UI     *)
(* thread; the state updates it queues, the re-render and the effects of   *)
(* that render are one step.                                               *)
(***************************************************************************)
EXTENDS Integers, Sequences, FiniteSets, TLC

(* ------------------------------ bounds -------------------------------- *)
\* fixed-point resolution: one pixel is Scale units
Scale == 64
\* how many of the pointer positions of PointList the pointer visits
NumPoints == 1
\* how many of the coordinates of CoordList the composer inputs use
NumCoords == 13
\* distinct readable image files the user can choose
MaxFiles == 1
\* file reads that may be pending at once
MaxPending == 2
\* service calls the model stores at once (the program itself has no limit)
MaxCalls == 2
\* listener registrations the model stores per pad
MaxListeners == 2

(* --------------------------- fixed point ------------------------------ *)
Abs(a) == IF a < 0 THEN -a ELSE a

Sgn(a) == IF a < 0 THEN -1 ELSE 1

\* a / b rounded to the nearest integer, ties to even (a >= 0, b > 0)
RoundDivNat(a, b) ==
    LET q == a \div b
        r == a % b
    IN  IF 2 * r > b \/ (2 * r = b /\ q % 2 = 1) THEN q + 1 ELSE q

\* a / b rounded to the nearest integer, ties to even (b > 0)
RoundDiv(a, b) == Sgn(a) * RoundDivNat(Abs(a), b)

\* the fixed-point value of the integer n
Fix(n) == n * Scale

\* number * number
Mul(a, b) == RoundDiv(a * b, Scale)

\* number / number (b > 0)
Div(a, b) == RoundDiv(a * Scale, b)

RECURSIVE FloorSqrt(_, _, _)
\* the largest d in lo..hi with d * d <= m, by bisection (lo * lo <= m)
FloorSqrt(m, lo, hi) ==
    IF lo = hi THEN lo
    ELSE LET mid == (lo + hi + 1) \div 2
         IN  IF mid * mid <= m THEN FloorSqrt(m, mid, hi)
             ELSE FloorSqrt(m, lo, mid - 1)

\* Math.sqrt: the square root of a (a >= 0), rounded to nearest
Sqrt(a) ==
    LET m == a * Scale
        d == FloorSqrt(m, 0, 46340)
    IN  IF m > d * d + d THEN d + 1 ELSE d

(* ------------------------------- pads --------------------------------- *)
Pads == {"gaze", "head", "body"}

\* padSize: 128 by default, 160 for the body pad
padSize(pad) == IF pad = "body" THEN 160 ELSE 128

\* rect.left + rect.width / 2 of each pad: the pads lie in one flex row,
\* gaze, head, body, 32 px apart (gap-8); rect.top + rect.height / 2 is 0
centerX(pad) ==
    CASE pad = "gaze" -> 0
      [] pad = "head" -> 160
      [] pad = "body" -> 336

centerY(pad) == 0

Origin == [x |-> 0, y |-> 0]

\* the (dx, dy) handleInteractionMove writes for the pointer at client
\* position pt (whole pixels)
ClampedOffset(pad, pt) ==
    LET dx == Fix(pt.x) - Fix(centerX(pad))
        dy == Fix(pt.y) - Fix(centerY(pad))
        radius == Fix(padSize(pad)) \div 2
        distance == Sqrt(Mul(dx, dx) + Mul(dy, dy))
    IN  IF distance > radius
        THEN [x |-> Mul(Div(dx, distance), radius),
              y |-> Mul(Div(dy, distance), radius)]
        ELSE [x |-> dx, y |-> dy]

(* ------------------------- pointer positions -------------------------- *)
\* client positions (whole pixels) the pointer or first touch can be at
PointList ==
    << [x |-> 12, y |-> 12], [x |-> 160, y |-> -30], [x |-> 366, y |-> 0],
       [x |-> 0, y |-> 30], [x |-> 9, y |-> 12], [x |-> 336, y |-> -90] >>

Min(a, b) == IF a < b THEN a ELSE b

Points == {PointList[i] : i \in 1..Min(NumPoints, Len(PointList))}

(* ------------------------------- state -------------------------------- *)
\* an empty image slot
NoImage == 0

\* error === null
NoError == "null"

\* the files the user can choose; reading file 0 fails (reader.result null)
Files == 0..MaxFiles

VARIABLES
    originalImage,  \* App state: the uploaded image, or NoImage
    editedImage,    \* App state: the original the shown result was made from
    isLoading,      \* App state
    error,          \* App state: the message shown, or NoError
    offset,         \* App state: gazeOffset, headOffset, bodyOffset
    isDragging,     \* DraggablePad state, one per pad
    listeners,      \* per pad: its registered window listeners, each the
                    \* value of isDragging its closure captured
    reading,        \* the files of the FileReaders that have not fired loadend
    requests,       \* generateContent calls awaiting their answer: the
                    \* image each was made with
    apiKey,         \* whether process.env.API_KEY is set
    lastEvent       \* history: the handler that ran last, the pad whose
                    \* session its event belongs to, the prompt it sent

vars == <<originalImage, editedImage, isLoading, error, offset, isDragging,
          listeners, reading, requests, apiKey, lastEvent>>

gazeOffset == offset["gaze"]

headOffset == offset["head"]

bodyOffset == offset["body"]

\* the footer with the three pads and the two buttons is rendered
FooterRendered(original) == original # NoImage

Event(kind, pad) == [kind |-> kind, pad |-> pad, prompt |-> ""]

Init ==
    /\ originalImage = NoImage
    /\ editedImage = NoImage
    /\ isLoading = FALSE
    /\ error = NoError
    /\ offset = [pad \in Pads |-> Origin]
    /\ isDragging = [pad \in Pads |-> FALSE]
    /\ listeners = [pad \in Pads |-> <<>>]
    /\ reading = <<>>
    /\ requests = <<>>
    /\ apiKey \in BOOLEAN
    /\ lastEvent = Event("mount", "none")

(* --------------------------- DraggablePad ----------------------------- *)
\* a cleanup that leaves the listeners registered
EffectCleanupNone(regs) == regs

\* the cleanup returned by the effect: removes the four listeners it added
EffectCleanup(regs) == <<>>

\* an effect body without the if (isDragging) around the registrations
EffectSetupAlways(dragging, regs) == Append(regs, dragging)

\* the body of the effect, run in a render where isDragging is dragging
EffectSetup(dragging, regs) ==
    IF dragging THEN Append(regs, dragging) ELSE regs

\* useEffect(..., [isDragging, setOffset]) of one pad after a render in which
\* its isDragging went from was to now
useEffect(was, now, regs) ==
    IF was = now THEN regs ELSE EffectSetup(now, EffectCleanup(regs))

\* the listeners of all pads after the render that makes isDragging = now
Commit(now) ==
    [pad \in Pads |-> useEffect(isDragging[pad], now[pad], listeners[pad])]

\* handleInteractionMove of one pad, run from a closure that captured
\* isDragging = dragging, with the pointer at pt; cur is the pad's offset
handleInteractionMove(pad, dragging, pt, cur) ==
    IF ~dragging \/ ~FooterRendered(originalImage) THEN cur
    ELSE ClampedOffset(pad, pt)

\* the listeners a window event reaches
Registered(pad) == listeners[pad] # <<>>

\* the pointer whose event it is belongs to the drag session of pad owner,
\* or to no session
Owner(owner) == owner = "none" \/ (owner \in Pads /\ isDragging[owner])

\* mousedown / touchstart on a pad
handleInteractionStart(pad) ==
    /\ FooterRendered(originalImage)
    /\ Len(listeners[pad]) < MaxListeners
    /\ isDragging' = [isDragging EXCEPT ![pad] = TRUE]
    /\ listeners' = Commit(isDragging')
    /\ lastEvent' = Event("press", pad)
    /\ UNCHANGED <<originalImage, editedImage, isLoading, error, offset,
                   reading, requests, apiKey>>

\* mousemove / touchmove on the window, clientX / clientY (of the mouse or
\* of touches[0]) being pt: every registered handleInteractionMove runs
WindowMove(owner, pt) ==
    /\ Owner(owner)
    /\ offset' = [pad \in Pads |->
                    IF Registered(pad)
                    THEN handleInteractionMove(pad,
                             listeners[pad][Len(listeners[pad])], pt,
                             offset[pad])
                    ELSE offset[pad]]
    /\ lastEvent' = Event("move", owner)
    /\ UNCHANGED <<originalImage, editedImage, isLoading, error, isDragging,
                   listeners, reading, requests, apiKey>>

\* a release handler that also recentres the knob
handleInteractionEndSnapBack(pad) ==
    [isDragging |-> FALSE, offset |-> Origin]

\* handleInteractionEnd of one pad: the pad's state after it ran; it writes
\* isDragging only
handleInteractionEnd(pad) ==
    [isDragging |-> FALSE, offset |-> offset[pad]]

\* mouseup / touchend on the window: every registered handleInteractionEnd
\* runs
WindowRelease(owner) ==
    /\ Owner(owner)
    /\ isDragging' = [pad \in Pads |->
                        IF Registered(pad)
                        THEN handleInteractionEnd(pad).isDragging
                        ELSE isDragging[pad]]
    /\ offset' = [pad \in Pads |->
                    IF Registered(pad)
                    THEN handleInteractionEnd(pad).offset
                    ELSE offset[pad]]
    /\ listeners' = Commit(isDragging')
    /\ lastEvent' = Event("release", owner)
    /\ UNCHANGED <<originalImage, editedImage, isLoading, error,
                   reading, requests, apiKey>>

(* -------------------------------- App --------------------------------- *)
\* a reset that forgets the body pad
ResetOffsetsNoBody ==
    [pad \in Pads |-> IF pad = "body" THEN offset[pad] ELSE Origin]

\* the three offsets handleReset writes
ResetOffsets == [pad \in Pads |-> Origin]

\* click on the Reset button
handleReset ==
    /\ FooterRendered(originalImage)
    /\ offset' = ResetOffsets
    /\ error' = NoError
    /\ lastEvent' = Event("reset", "none")
    /\ UNCHANGED <<originalImage, editedImage, isLoading, isDragging,
                   listeners, reading, requests, apiKey>>

\* the sequence s without its i-th element
Remove(s, i) == SubSeq(s, 1, i - 1) \o SubSeq(s, i + 1, Len(s))

\* the sorted sequence s with f added: the FileReaders are independent, so
\* the pending reads are a multiset, kept in one canonical order
Insert(s, f) ==
    LET k == Cardinality({i \in 1..Len(s) : s[i] <= f})
    IN  SubSeq(s, 1, k) \o <<f>> \o SubSeq(s, k + 1, Len(s))

\* change on the hidden file input, which only the upload button (shown
\* while there is no original image) opens: starts reading the chosen file
handleFileChange(f) ==
    /\ ~FooterRendered(originalImage)
    /\ Len(reading) < MaxPending
    /\ reading' = Insert(reading, f)
    /\ lastEvent' = Event("choose", "none")
    /\ UNCHANGED <<originalImage, editedImage, isLoading, error, offset,
                   isDragging, listeners, requests, apiKey>>

\* reader.onloadend of the i-th pending read; reader.result is null when
\* the read failed.  The pads exist only while an original image is shown:
\* unmounting them runs the effect cleanups and drops their state
onloadend(i) ==
    /\ i \in 1..Len(reading)
    /\ originalImage' = reading[i]
    /\ editedImage' = NoImage
    /\ offset' = ResetOffsets
    /\ error' = NoError
    /\ IF FooterRendered(originalImage')
       THEN UNCHANGED <<isDragging, listeners>>
       ELSE /\ isDragging' = [pad \in Pads |-> FALSE]
            /\ listeners' = [pad \in Pads |-> EffectCleanup(listeners[pad])]
    /\ reading' = Remove(reading, i)
    /\ lastEvent' = Event("upload", "none")
    /\ UNCHANGED <<isLoading, requests, apiKey>>

(* --------------------------- generatePrompt --------------------------- *)
\* a deadzone one pixel smaller
thresholdLow == Fix(14)

threshold == Fix(15)

\* Math.sqrt(o.x ** 2 + o.y ** 2)
Distance(o) == Sqrt(Mul(o.x, o.x) + Mul(o.y, o.y))

vertical(o) ==
    IF o.y < -threshold THEN "up"
    ELSE IF o.y > threshold THEN "down" ELSE ""

\* a horizontal label that never says "right"
horizontalLeftOnly(o) == IF o.x < -threshold THEN "left" ELSE ""

horizontal(o) ==
    IF o.x < -threshold THEN "left"
    ELSE IF o.x > threshold THEN "right" ELSE ""

\* [vertical, horizontal].filter(Boolean).join(' and to the ')
Direction(o) ==
    IF vertical(o) # "" /\ horizontal(o) # ""
    THEN vertical(o) \o " and to the " \o horizontal(o)
    ELSE vertical(o) \o horizontal(o)

\* an amount whose upper boundary is inclusive
AmountInclusive(distance, padRadius) ==
    IF 4 * distance >= 3 * padRadius THEN "significantly "
    ELSE IF 5 * distance < 2 * padRadius THEN "slightly "
    ELSE ""

\* tiltAmount / turnAmount.  padRadius * 0.75 and padRadius * 0.4 are
\* compared as exact fractions: 3/4 and 2/5 of the radius
Amount(distance, padRadius) ==
    IF 4 * distance > 3 * padRadius THEN "significantly "
    ELSE IF 5 * distance < 2 * padRadius THEN "slightly "
    ELSE ""

\* what the head branch pushes (<<>> when it pushes nothing)
HeadPart(o) ==
    IF Distance(o) > threshold /\ Direction(o) # ""
    THEN << "Tilt the main subject's head "
            \o Amount(Distance(o), Fix(64)) \o Direction(o) \o "." >>
    ELSE <<>>

\* what the body branch pushes
BodyPart(o) ==
    IF Distance(o) > threshold /\ Direction(o) # ""
    THEN << "Turn the main subject's body "
            \o Amount(Distance(o), Fix(80)) \o "to face "
            \o Direction(o) \o "." >>
    ELSE <<>>

\* what the gaze branch pushes
GazePart(o) ==
    IF Distance(o) > threshold /\ Direction(o) # ""
    THEN << "Make the subject look " \o Direction(o) \o "." >>
    ELSE <<>>

\* the parts pushed body first
promptPartsBodyFirst(head, body, gaze) ==
    BodyPart(body) \o HeadPart(head) \o GazePart(gaze)

\* promptParts at line 195, for the given offsets
promptParts(head, body, gaze) ==
    HeadPart(head) \o BodyPart(body) \o GazePart(gaze)

RECURSIVE Join(_, _)
\* parts.join(sep)
Join(parts, sep) ==
    IF parts = <<>> THEN ""
    ELSE IF Len(parts) = 1 THEN parts[1]
    ELSE parts[1] \o sep \o Join(Tail(parts), sep)

Fallback ==
    "Make a high-quality, photorealistic image of the subject, keeping the style the same."

\* a composer without the fallback sentence
ComposedPromptNoFallback(head, body, gaze) ==
    Join(promptParts(head, body, gaze), " ")

\* generatePrompt() for the given offsets
ComposedPrompt(head, body, gaze) ==
    IF Len(promptParts(head, body, gaze)) = 0 THEN Fallback
    ELSE Join(promptParts(head, body, gaze), " ")

generatePrompt == ComposedPrompt(headOffset, bodyOffset, gazeOffset)

(* --------------------------- generateImage ---------------------------- *)
\* a Generate button that is never disabled
GenerateNeverDisabled == FALSE

\* disabled={isLoading} on the Generate button
GenerateDisabled == isLoading

\* a run start that leaves the previous edited image displayed
RunStartKeepsEdited ==
    [isLoading |-> TRUE, error |-> NoError, editedImage |-> editedImage]

\* a run start that leaves the previous error message displayed
RunStartKeepsError ==
    [isLoading |-> TRUE, error |-> error, editedImage |-> NoImage]

\* setIsLoading(true); setError(null); setEditedImage(null): what a run
\* writes before it does anything else
RunStart ==
    [isLoading |-> TRUE, error |-> NoError, editedImage |-> NoImage]

\* a generateImage without the early return
MissingInputNever == FALSE

\* if (!originalImage)
MissingInput == originalImage = NoImage

\* a generateImage that does not look at the key
MissingCredentialNever == FALSE

\* if (!process.env.API_KEY)
MissingCredential == ~apiKey

\* generateImage up to its await (or, when it throws before the call,
\* through its catch and finally)
generateImageBody ==
    /\ IF MissingInput
       THEN /\ error' = "Please upload an image first."
            /\ lastEvent' = Event("generate", "none")
            /\ UNCHANGED <<isLoading, editedImage, requests>>
       ELSE IF MissingCredential
       THEN /\ isLoading' = FALSE
            /\ error' = "API_KEY is not set in environment variables."
            /\ editedImage' = RunStart.editedImage
            /\ lastEvent' = Event("generate", "none")
            /\ UNCHANGED requests
       ELSE /\ isLoading' = RunStart.isLoading
            /\ error' = RunStart.error
            /\ editedImage' = RunStart.editedImage
            /\ requests' = Append(requests, [image |-> originalImage])
            /\ lastEvent' = [kind |-> "generate", pad |-> "none",
                             prompt |-> generatePrompt]
    /\ UNCHANGED <<originalImage, offset, isDragging, listeners, reading,
                   apiKey>>

\* click on the Generate button, which exists only in the footer
generateImage ==
    /\ FooterRendered(originalImage)
    /\ ~GenerateDisabled
    /\ Len(requests) < MaxCalls
    /\ generateImageBody

\* generateImage called while no original image is shown, which no element
\* of the rendered page does: the function taken on its own
CallWithoutImage ==
    /\ ~FooterRendered(originalImage)
    /\ Len(requests) < MaxCalls
    /\ generateImageBody

\* how a generateContent call can end: with an image part, without one,
\* rejected with a message, rejected without one
Outcomes == {"image", "blocked", "rejected", "failed"}

\* a catch block that swallows a response without image part
ErrorOfSwallowed(outcome) ==
    CASE outcome = "blocked" -> NoError
      [] outcome = "rejected" -> "service message"
      [] outcome = "failed" -> "An unexpected error occurred."

\* the message the catch block sets for an outcome without image
ErrorOf(outcome) ==
    CASE outcome = "blocked" ->
             "No image was generated. The response may have been blocked."
      [] outcome = "rejected" -> "service message"
      [] outcome = "failed" -> "An unexpected error occurred."

\* the i-th pending call ends: generateImage from its await to its end
ServiceAnswers(i, outcome) ==
    /\ i \in 1..Len(requests)
    /\ IF outcome = "image"
       THEN /\ editedImage' = requests[i].image
            /\ UNCHANGED error
       ELSE /\ error' = ErrorOf(outcome)
            /\ UNCHANGED editedImage
    /\ isLoading' = FALSE
    /\ requests' = Remove(requests, i)
    /\ lastEvent' = Event("answer", "none")
    /\ UNCHANGED <<originalImage, offset, isDragging, listeners, reading,
                   apiKey>>

(* --------------------------- specification ---------------------------- *)
Owners == Pads \cup {"none"}

Next ==
    \/ \E pad \in Pads : handleInteractionStart(pad)
    \/ \E owner \in Owners, pt \in Points : WindowMove(owner, pt)
    \/ \E owner \in Owners : WindowRelease(owner)
    \/ handleReset
    \/ \E f \in Files : handleFileChange(f)
    \/ \E i \in 1..MaxPending : onloadend(i)
    \/ generateImage
    \/ \E i \in 1..MaxCalls, outcome \in Outcomes : ServiceAnswers(i, outcome)

Spec == Init /\ [][Next]_vars

\* the page together with direct calls of generateImage
NextHandlers == Next \/ CallWithoutImage

SpecHandlers == Init /\ [][NextHandlers]_vars

\* some pending call ends
Answered ==
    \E i \in 1..MaxCalls, outcome \in Outcomes : ServiceAnswers(i, outcome)

\* the page with a service that answers or rejects every call in the end:
\* the promise of generateContent settles and its continuation is run
SpecFair == Spec /\ WF_vars(Answered)

(* ---------------- the composer on a range of offsets ----------------- *)
\* coordinates (whole pixels) of the offsets the composer is run on
CoordList == <<0, 15, 16, -15, -16, 12, 30, 48, 50, 20, 32, 60, -50, 9, 64, 80>>

Coords == {CoordList[i] : i \in 1..Min(NumCoords, Len(CoordList))}

Pt(a, b) == [x |-> Fix(a), y |-> Fix(b)]

\* offsets a drag can leave on a pad: whole-pixel offsets inside the pad,
\* and what the pad clamps the pointer positions of Points to
PadOffsets(pad) ==
    {Pt(a, b) : a \in Coords, b \in Coords} \cup {Pt(9, 12)}
        \cup {ClampedOffset(pad, pt) : pt \in Points}

InsidePad(pad, o) == Distance(o) <= Fix(padSize(pad)) \div 2

\* offsets of the two pads that are not varied
FewOffsets == {Pt(0, 0), Pt(0, -30), Pt(30, 0), Pt(0, 30), Pt(12, 12)}

\* an image is loaded, the credential is set, and the pads were dragged:
\* one of them to any offset of PadOffsets, the others to FewOffsets
InitCompose ==
    /\ originalImage = 1
    /\ editedImage = NoImage
    /\ isLoading = FALSE
    /\ error = NoError
    /\ \E focus \in Pads :
         \E o \in {q \in PadOffsets(focus) : InsidePad(focus, q)} :
           \E f \in [Pads -> FewOffsets] :
             offset = [f EXCEPT ![focus] = o]
    /\ isDragging = [pad \in Pads |-> FALSE]
    /\ listeners = [pad \in Pads |-> <<>>]
    /\ reading = <<>>
    /\ requests = <<>>
    /\ apiKey = TRUE
    /\ lastEvent = Event("release", "none")

NextCompose ==
    \/ generateImage
    \/ \E i \in 1..MaxCalls : ServiceAnswers(i, "image")

SpecCompose == InitCompose /\ [][NextCompose]_vars

(* ------------------------------ claims -------------------------------- *)
\* x * x + y * y of an offset, exactly (in units of 1 / Scale^2)
SquaredLength(o) == o.x * o.x + o.y * o.y

SquaredRadius(pad) == (Fix(padSize(pad)) \div 2) * (Fix(padSize(pad)) \div 2)

\* C1: in every reachable state each of the three offsets satisfies
\* x*x + y*y <= radius*radius for its own pad's radius (64, 64, 80).
ClampingInvariant ==
    \A pad \in Pads : SquaredLength(offset[pad]) <= SquaredRadius(pad)

\* C2: in every reachable state at most one request to the generation
\* service is outstanding.
SingleInFlight == Len(requests) <= 1

\* C2 witness: a call is outstanding while the Generate button is rendered
\* (and disabled), after the user has gone on using the pads.
SingleInFlightWitness ==
    /\ Len(requests) = 1
    /\ FooterRendered(originalImage)
    /\ isLoading
    /\ lastEvent.kind = "move"

PointerKinds == {"press", "move", "release"}

\* C3: a press, move or release that belongs to the drag session of one pad
\* changes the offset of neither of the other two pads, also when one of
\* them has a drag session of its own.
PadIndependence ==
    [][\A a \in Pads :
         (lastEvent'.kind \in PointerKinds /\ lastEvent'.pad = a)
            => \A b \in Pads \ {a} : offset'[b] = offset[b]]_vars

\* C4: in the state right after the reset action all three offsets are
\* (0,0) and there is no error message.
ResetCompleteness ==
    lastEvent.kind = "reset"
        => /\ \A pad \in Pads : offset[pad] = Origin
           /\ error = NoError

\* C4 witness: reset has just run during a drag and with a generation in
\* flight.
ResetCompletenessWitness ==
    /\ lastEvent.kind = "reset"
    /\ \E pad \in Pads : isDragging[pad]
    /\ isLoading

\* C10: an offset changes only in a move delivered while its own pad has an
\* active drag session, in the reset action, or when an upload completes;
\* in particular a move delivered while a pad has no active session leaves
\* that pad's offset unchanged.
OffsetsChangeOnlyUnderDrag ==
    [][\A pad \in Pads :
         offset'[pad] # offset[pad]
            => \/ lastEvent'.kind = "move" /\ isDragging[pad]
               \/ lastEvent'.kind \in {"reset", "upload"}]_vars

\* C10 witness: a move was delivered after the release that ended the
\* session of a pad whose offset the session had changed.
OffsetsChangeOnlyUnderDragWitness ==
    /\ lastEvent.kind = "move"
    /\ \E pad \in Pads : ~isDragging[pad] /\ offset[pad] # Origin

(* the phrases a prompt can be made of, as the specification words them *)
Labels ==
    {"up", "down", "left", "right", "up and to the left",
     "up and to the right", "down and to the left", "down and to the right"}

Qualifiers == {"", "slightly ", "significantly "}

\* the phrase of an axis for a qualifier and a direction label
Phrase(pad, qualifier, label) ==
    CASE pad = "head" ->
             "Tilt the main subject's head " \o qualifier \o label \o "."
      [] pad = "body" ->
             "Turn the main subject's body " \o qualifier \o "to face "
                 \o label \o "."
      [] pad = "gaze" ->
             "Make the subject look " \o qualifier \o label \o "."

\* every phrase of an axis, and "" for no phrase
Options(pad) ==
    {Phrase(pad, q, l) : q \in Qualifiers, l \in Labels} \cup {""}

\* phrases joined by single spaces, absent ones left out
Spaced(a, b) == IF a = "" THEN b ELSE IF b = "" THEN a ELSE a \o " " \o b

Sentence(head, body, gaze) == Spaced(head, Spaced(body, gaze))

\* the prompts in which the head (body, gaze) phrase carries qualifier q
HeadPrompts(q) ==
    {Sentence(Phrase("head", q, l), b, g) :
        l \in Labels, b \in Options("body"), g \in Options("gaze")}

BodyPrompts(q) ==
    {Sentence(h, Phrase("body", q, l), g) :
        l \in Labels, h \in Options("head"), g \in Options("gaze")}

GazePrompts(q) ==
    {Sentence(h, b, Phrase("gaze", q, l)) :
        l \in Labels, h \in Options("head"), b \in Options("body")}

HeadSlightly == HeadPrompts("slightly ")

HeadPlain == HeadPrompts("")

HeadSignificantly == HeadPrompts("significantly ")

BodySlightly == BodyPrompts("slightly ")

BodyPlain == BodyPrompts("")

BodySignificantly == BodyPrompts("significantly ")

GazeSlightly == GazePrompts("slightly ")

GazePlain == GazePrompts("")

GazeSignificantly == GazePrompts("significantly ")

\* the prompt holds a phrase of the axis with the given qualifier
Qualified(pad, qualifier, prompt) ==
    CASE pad = "head" /\ qualifier = "slightly " -> prompt \in HeadSlightly
      [] pad = "head" /\ qualifier = "" -> prompt \in HeadPlain
      [] pad = "head" /\ qualifier = "significantly " ->
             prompt \in HeadSignificantly
      [] pad = "body" /\ qualifier = "slightly " -> prompt \in BodySlightly
      [] pad = "body" /\ qualifier = "" -> prompt \in BodyPlain
      [] pad = "body" /\ qualifier = "significantly " ->
             prompt \in BodySignificantly
      [] pad = "gaze" /\ qualifier = "slightly " -> prompt \in GazeSlightly
      [] pad = "gaze" /\ qualifier = "" -> prompt \in GazePlain
      [] pad = "gaze" /\ qualifier = "significantly " ->
             prompt \in GazeSignificantly

\* the prompt holds a phrase of the axis
Contributes(pad, prompt) == \E q \in Qualifiers : Qualified(pad, q, prompt)

\* the prompt generateImage has just sent, composed from the offsets of
\* this state
SentPrompts ==
    IF lastEvent.kind = "generate" /\ isLoading
    THEN {lastEvent.prompt} ELSE {}

\* distance <= 15, exactly
InDeadzone(o) == SquaredLength(o) <= Fix(15) * Fix(15)

\* C5: an axis whose offset lies at distance <= 15 from (0,0), 15 included,
\* contributes no phrase to the composed prompt.
Deadzone ==
    \A prompt \in SentPrompts : \A pad \in Pads :
        InDeadzone(offset[pad]) => ~Contributes(pad, prompt)

\* C5 witness: a prompt was composed with one axis at distance exactly 15,
\* at (9,12), and with other axes contributing phrases.
DeadzoneWitness ==
    /\ \E pad \in Pads : offset[pad] = Pt(9, 12)
    /\ \E prompt \in SentPrompts : prompt # Fallback

\* distance > 15, exactly
BeyondDeadzone(o) == SquaredLength(o) > Fix(15) * Fix(15)

\* |x| > 15 or |y| > 15
BeyondOnAnAxis(o) == Abs(o.x) > Fix(15) \/ Abs(o.y) > Fix(15)

\* C6 as stated: whenever an axis's distance exceeds 15, one of its
\* direction labels is non-empty and the prompt holds a phrase for it.
PhraseBeyondDeadzone ==
    \A pad \in Pads :
        BeyondDeadzone(offset[pad])
            => /\ vertical(offset[pad]) # "" \/ horizontal(offset[pad]) # ""
               /\ \A prompt \in SentPrompts : Contributes(pad, prompt)

\* C6 amended: whenever |x| > 15 or |y| > 15 (so that the distance exceeds
\* 15 too), one of the axis's direction labels is non-empty and the prompt
\* holds a phrase for it; when the distance exceeds 15 but |x| <= 15 and
\* |y| <= 15, as at (12,12), both labels are empty and the axis contributes
\* no phrase.
PhraseBeyondDeadzoneOnAnAxis ==
    \A pad \in Pads :
        /\ BeyondOnAnAxis(offset[pad])
            => /\ BeyondDeadzone(offset[pad])
               /\ vertical(offset[pad]) # "" \/ horizontal(offset[pad]) # ""
               /\ \A prompt \in SentPrompts : Contributes(pad, prompt)
        /\ BeyondDeadzone(offset[pad]) /\ ~BeyondOnAnAxis(offset[pad])
            => /\ vertical(offset[pad]) = "" /\ horizontal(offset[pad]) = ""
               /\ \A prompt \in SentPrompts : ~Contributes(pad, prompt)

\* C6 witness: a prompt was composed with one axis marginally beyond the
\* deadzone, at (16,0), and another at (12,12).
PhraseBeyondDeadzoneWitness ==
    /\ SentPrompts # {}
    /\ \E pad \in Pads : offset[pad] = Pt(16, 0)
    /\ \E pad \in Pads : offset[pad] = Pt(12, 12)

(* the composition as the specification describes it, in exact arithmetic *)
LabelOf(o) ==
    LET v == IF o.y < -Fix(15) THEN "up"
             ELSE IF o.y > Fix(15) THEN "down" ELSE ""
        h == IF o.x < -Fix(15) THEN "left"
             ELSE IF o.x > Fix(15) THEN "right" ELSE ""
    IN  IF v = "" THEN h ELSE IF h = "" THEN v ELSE v \o " and to the " \o h

\* distance > 0.75 * radius, distance < 0.40 * radius
QualifierOf(pad, o) ==
    IF pad = "gaze" THEN ""
    ELSE IF 16 * SquaredLength(o) > 9 * SquaredRadius(pad)
    THEN "significantly "
    ELSE IF 25 * SquaredLength(o) < 4 * SquaredRadius(pad)
    THEN "slightly "
    ELSE ""

PhraseOf(pad, o) ==
    IF LabelOf(o) = "" THEN "" ELSE Phrase(pad, QualifierOf(pad, o), LabelOf(o))

\* the composed prompt is the head phrase, then the body phrase, then the
\* gaze phrase, each present only if its direction label is non-empty,
\* joined by single spaces
InOrder(prompt) ==
    (\E pad \in Pads : LabelOf(offset[pad]) # "")
        => prompt = Sentence(PhraseOf("head", headOffset),
                             PhraseOf("body", bodyOffset),
                             PhraseOf("gaze", gazeOffset))

\* the offsets of the specification's example
Example ==
    headOffset = Pt(0, -30) /\ bodyOffset = Pt(30, 0) /\ gazeOffset = Pt(0, 30)

\* C7 as stated: the composed prompt is the head phrase, then the body
\* phrase, then the gaze phrase, each present only if its direction label
\* is non-empty, joined by single spaces; in a label the vertical word
\* precedes the horizontal word, joined by " and to the ".  Head (0,-30),
\* body (30,0), gaze (0,30) give a sentence without qualifiers.
ComposerOrdering ==
    \A prompt \in SentPrompts :
        /\ InOrder(prompt)
        /\ Example
            => prompt = "Tilt the main subject's head up. Turn the main subject's body to face right. Make the subject look down."

\* C7 amended: the same composition and order; for head (0,-30), body
\* (30,0), gaze (0,30) the body phrase carries "slightly " (30 < 0.4 x 80).
ComposerOrderingSlightly ==
    \A prompt \in SentPrompts :
        /\ InOrder(prompt)
        /\ Example
            => prompt = "Tilt the main subject's head up. Turn the main subject's body slightly to face right. Make the subject look down."

\* C7 witness: the prompt of the example was composed.
ComposerOrderingWitness == Example /\ SentPrompts # {}

\* C8: a head or body phrase carries "significantly " exactly when the
\* distance is > 0.75 x the pad's radius (64 head, 80 body), "slightly "
\* exactly when it is < 0.40 x the radius, and no qualifier otherwise; a
\* gaze phrase never carries a qualifier.
IntensityQualifier ==
    \A prompt \in SentPrompts : \A pad \in Pads :
        Contributes(pad, prompt)
            => IF pad = "gaze" THEN Qualified(pad, "", prompt)
               ELSE /\ Qualified(pad, "significantly ", prompt)
                        <=> 16 * SquaredLength(offset[pad])
                               > 9 * SquaredRadius(pad)
                    /\ Qualified(pad, "slightly ", prompt)
                        <=> 25 * SquaredLength(offset[pad])
                               < 4 * SquaredRadius(pad)
                    /\ Qualified(pad, "", prompt)
                        <=> /\ 16 * SquaredLength(offset[pad])
                                  <= 9 * SquaredRadius(pad)
                            /\ 25 * SquaredLength(offset[pad])
                                  >= 4 * SquaredRadius(pad)

\* C8 witness: a prompt was composed with the head exactly at 0.75 x 64,
\* at (48,0): the boundary gives no qualifier.
IntensityQualifierWitness ==
    /\ headOffset = Pt(48, 0)
    /\ \E prompt \in SentPrompts : Qualified("head", "", prompt)

\* C9: the composed prompt is the fallback sentence if and only if no axis
\* contributes a phrase; it is the result whenever all three offsets are
\* within the deadzone, (0,0) included.
ComposerFallback ==
    \A prompt \in SentPrompts :
        /\ prompt = Fallback <=> \A pad \in Pads : ~Contributes(pad, prompt)
        /\ prompt = Fallback <=> \A pad \in Pads : LabelOf(offset[pad]) = ""
        /\ (\A pad \in Pads : InDeadzone(offset[pad])) => prompt = Fallback

\* C9 witness: the fallback was composed with an axis off centre but within
\* the deadzone.
ComposerFallbackWitness ==
    /\ \A pad \in Pads : InDeadzone(offset[pad])
    /\ \E pad \in Pads : offset[pad] # Origin
    /\ Fallback \in SentPrompts

(* ------------------------------ C11 ----------------------------------- *)
\* C11: no snap-back.  The release event that ends a drag session leaves the
\* offset of every pad, the released one included, as the last move of the
\* session wrote it: releasing writes no offset
NoSnapBack ==
    [][lastEvent'.kind = "release" => offset' = offset]_vars

\* a session of a pad has just been ended by a release, with its knob away
\* from the centre
NoSnapBackWitness ==
    /\ lastEvent.kind = "release"
    /\ lastEvent.pad \in Pads
    /\ ~isDragging[lastEvent.pad]
    /\ offset[lastEvent.pad] # Origin

(* ------------------------------ C12 ----------------------------------- *)
\* C12: the edited slot is empty right after a file read installed an
\* original and right after generateImage ran, and it is empty for as long
\* as a generation is in flight
EditedCleared ==
    /\ lastEvent.kind \in {"upload", "generate"} => editedImage = NoImage
    /\ isLoading => editedImage = NoImage
    /\ requests # <<>> => editedImage = NoImage

\* a file read has just installed an original while a generation is in
\* flight
EditedClearedWitness ==
    /\ lastEvent.kind = "upload"
    /\ originalImage # NoImage
    /\ isLoading
    /\ requests # <<>>

(* ------------------------------ C13 ----------------------------------- *)
\* C13: at most one of "a generation is in flight", "an error message is
\* present" and "an edited image is present" holds; in particular an error
\* and an edited image are never shown together, and a generation that has
\* just started shows neither
RequestLifecycle ==
    /\ ~(isLoading /\ error # NoError)
    /\ ~(isLoading /\ editedImage # NoImage)
    /\ ~(error # NoError /\ editedImage # NoImage)
    /\ (lastEvent.kind = "generate" /\ isLoading) =>
           (error = NoError /\ editedImage = NoImage)

\* a call has just ended in an error: failed, not in flight, no edited image
RequestLifecycleWitness ==
    /\ lastEvent.kind = "answer"
    /\ error # NoError
    /\ ~isLoading
    /\ editedImage = NoImage

(* ------------------------------ C14 ----------------------------------- *)
\* C14: MissingInput.  A generateImage that runs with no original image
\* sets the upload message and nothing else: no call is made, the request
\* does not become in flight, the offsets and both image slots stay
MissingInputRejected ==
    [][(lastEvent'.kind = "generate" /\ originalImage = NoImage) =>
          /\ error' = "Please upload an image first."
          /\ requests' = requests
          /\ isLoading' = isLoading
          /\ offset' = offset
          /\ originalImage' = originalImage
          /\ editedImage' = editedImage]_vars

\* generateImage has just run with no original image
MissingInputRejectedWitness ==
    /\ lastEvent.kind = "generate"
    /\ originalImage = NoImage
    /\ error = "Please upload an image first."
    /\ ~isLoading
    /\ requests = <<>>

(* ------------------------------ C15 ----------------------------------- *)
\* C15: MissingCredential.  A generateImage that runs with an original
\* image and no API key makes no call and ends failed: the key message is
\* shown, nothing is in flight and the edited slot is empty
MissingCredentialFails ==
    (lastEvent.kind = "generate" /\ ~apiKey) =>
        /\ requests = <<>>
        /\ error = "API_KEY is not set in environment variables."
        /\ ~isLoading
        /\ editedImage = NoImage

\* Generate has just been clicked with an original image and no key
MissingCredentialFailsWitness ==
    /\ lastEvent.kind = "generate"
    /\ ~apiKey
    /\ originalImage # NoImage
    /\ error # NoError

(* ------------------------------ C16 ----------------------------------- *)
\* C16: with a service that settles every call, each state in which a
\* generation is in flight is followed by a state in which none is and an
\* edited image or an error message is present; and the request is in
\* flight only while a call is pending, so that Generate is enabled again
\* once the service has answered
GenerationEnds ==
    /\ [](isLoading => requests # <<>>)
    /\ isLoading ~>
           (~isLoading /\ (editedImage # NoImage \/ error # NoError))

\* a call has just ended with an image and Generate is enabled again
GenerationEndsWitness ==
    /\ lastEvent.kind = "answer"
    /\ editedImage # NoImage
    /\ error = NoError
    /\ ~GenerateDisabled

(* ------------------------------ C17 ----------------------------------- *)
\* C17: the drag sessions are independent.  A press or a release that
\* belongs to one pad neither starts nor ends the session of another pad
SessionIndependence ==
    [][\A a \in Pads :
          (lastEvent'.kind \in {"press", "release"} /\ lastEvent'.pad = a) =>
              \A b \in Pads \ {a} : isDragging'[b] = isDragging[b]]_vars

(* ------------------------------ C18 ----------------------------------- *)
\* C18: a pad's window listeners are registered exactly while its session
\* is active, and never more than once: a pad without session has none
ScopedListeners ==
    \A pad \in Pads :
        /\ isDragging[pad] <=> Registered(pad)
        /\ Len(listeners[pad]) <= 1

\* after a press and a release nothing is registered, while the knob shows
\* that a session has taken place
ScopedListenersWitness ==
    /\ lastEvent.kind = "release"
    /\ lastEvent.pad \in Pads
    /\ \A pad \in Pads : listeners[pad] = <<>> /\ ~isDragging[pad]
    /\ \E pad \in Pads : offset[pad] # Origin

(* ------------------------------ C19 ----------------------------------- *)
\* C19: an edited image that is present was produced from the original
\* image that is in the original slot
EditedBelongsToOriginal ==
    editedImage # NoImage => editedImage = originalImage

====
